---- MODULE Spec2Model ----
(***************************************************************************)
(* code-stats: the concurrent directory walker (scanDirWithProgress), the  *)
(* mutex-guarded Counter and the reporting steps of runStats, modelled     *)
(* from src/main.go and src/parser/comment_parser.go.                      *)
(*                                                                         *)
(* Strings that the code inspects (file names, extensions, file contents)  *)
(* are sequences of one-character strings, so that filepath.Ext,           *)
(* strings.Split, strings.TrimSpace and strings.HasPrefix are computed.    *)
(***************************************************************************)
EXTENDS Integers, Sequences, FiniteSets, TLC

(***************************************************************************)
(* Bounds of the model.                                                    *)
(***************************************************************************)
\* At most this many directory entries are unreadable in one run.
MaxUnreadable == 1

\* The texts of the measured files have at most this many characters.
MaxLen == 3

(***************************************************************************)
(* String helpers.                                                         *)
(***************************************************************************)
NL == "\n"

\* unicode.IsSpace restricted to the characters the model's texts use.
IsSpace(ch) == ch \in {" ", "\t", "\r", NL}

\* strings.HasPrefix(s, p)
HasPrefix(s, p) == /\ Len(s) >= Len(p)
                   /\ SubSeq(s, 1, Len(p)) = p

\* strings.TrimSpace(s): drop leading and trailing white space.
RECURSIVE TrimLeft(_)
TrimLeft(s) == IF s # <<>> /\ IsSpace(Head(s)) THEN TrimLeft(Tail(s)) ELSE s

RECURSIVE TrimRight(_)
TrimRight(s) == IF s # <<>> /\ IsSpace(s[Len(s)])
                THEN TrimRight(SubSeq(s, 1, Len(s) - 1))
                ELSE s

\* Mutation: only the trailing white space is dropped.
TrimSpaceRightOnly(s) == TrimRight(s)

TrimSpace(s) == TrimRight(TrimLeft(s))

\* strings.Split(s, "\n"): the segments between newlines; always at least one.
RECURSIVE SplitFrom(_, _, _)
SplitFrom(s, i, cur) ==
    IF i > Len(s) THEN <<cur>>
    ELSE IF s[i] = NL THEN <<cur>> \o SplitFrom(s, i + 1, <<>>)
    ELSE SplitFrom(s, i + 1, Append(cur, s[i]))

\* Mutation: the lines as a line scanner yields them, without the empty segment
\* that follows a trailing newline.
SplitLines(s) ==
    LET segs == SplitFrom(s, 1, <<>>)
    IN  IF s # <<>> /\ s[Len(s)] = NL THEN SubSeq(segs, 1, Len(segs) - 1) ELSE segs

Split(s) == SplitFrom(s, 1, <<>>)

\* filepath.Ext applied to a path whose last element is name: the suffix that
\* starts at the last dot of name, the empty string when name has no dot.
RECURSIVE ExtFrom(_, _)
ExtFrom(name, i) ==
    IF i < 1 THEN <<>>
    ELSE IF name[i] = "." THEN SubSeq(name, i, Len(name))
    ELSE ExtFrom(name, i - 1)

\* Mutation: the suffix after the last dot, without the dot (path[i+1:]).
ExtNoDot(name) ==
    LET e == ExtFrom(name, Len(name)) IN IF e = <<>> THEN e ELSE Tail(e)

Ext(name) == ExtFrom(name, Len(name))

\* slices.Contains(list, x)
Contains(list, x) == \E i \in 1..Len(list) : list[i] = x

(***************************************************************************)
(* parser.CommentParsers and the two predicates.                           *)
(***************************************************************************)
\* Mutation: the prefix // is forgotten.
GoIsCommentNoLineComment(line) ==
    LET trimmed == TrimSpace(line)
    IN  \/ HasPrefix(trimmed, <<"/", "*">>)
        \/ HasPrefix(trimmed, <<"*">>)
        \/ HasPrefix(trimmed, <<"*", "/">>)

GoIsComment(line) ==
    LET trimmed == TrimSpace(line)
    IN  \/ HasPrefix(trimmed, <<"/", "/">>)
        \/ HasPrefix(trimmed, <<"/", "*">>)
        \/ HasPrefix(trimmed, <<"*">>)
        \/ HasPrefix(trimmed, <<"*", "/">>)

\* Mutation: the two prefixes that start with a star are forgotten.
JsIsCommentSlashOnly(line) ==
    LET trimmed == TrimSpace(line)
    IN  \/ HasPrefix(trimmed, <<"/", "/">>)
        \/ HasPrefix(trimmed, <<"/", "*">>)

JsIsComment(line) ==
    LET trimmed == TrimSpace(line)
    IN  \/ HasPrefix(trimmed, <<"/", "/">>)
        \/ HasPrefix(trimmed, <<"/", "*">>)
        \/ HasPrefix(trimmed, <<"*">>)
        \/ HasPrefix(trimmed, <<"*", "/">>)

ExtGo  == <<".", "g", "o">>
ExtJs  == <<".", "j", "s">>
ExtTs  == <<".", "t", "s">>
ExtJsx == <<".", "j", "s", "x">>
ExtTsx == <<".", "t", "s", "x">>
ExtTxt == <<".", "t", "x", "t">>

\* The registry: "go" and "js" name the two parser types.
CommentParsers ==
    [e \in {ExtGo, ExtJs, ExtTs, ExtJsx, ExtTsx} |-> IF e = ExtGo THEN "go" ELSE "js"]

\* Mutation: the list of prefixes holds the empty prefix, which every line has.
IsCommentEmptyPrefix(parser, line) ==
    \/ HasPrefix(TrimSpace(line), <<>>)
    \/ IF parser = "go" THEN GoIsComment(line) ELSE JsIsComment(line)

IsComment(parser, line) ==
    IF parser = "go" THEN GoIsComment(line) ELSE JsIsComment(line)

(***************************************************************************)
(* The three measurements, on the result of os.ReadFile: ok tells whether  *)
(* the read succeeded, content is the text read.                           *)
(***************************************************************************)
\* Mutation: the number of newline characters (what wc -l prints).
countLinesNewlines(ok, content) ==
    IF ~ok THEN 0 ELSE Cardinality({i \in 1..Len(content) : content[i] = NL})

countLines(ok, content) ==
    IF ~ok THEN 0 ELSE Len(Split(content))

\* Mutation: the line is compared with "" without being trimmed.
countEmptyLinesNoTrim(ok, content) ==
    IF ~ok THEN 0
    ELSE LET lines == Split(content)
         IN  Cardinality({i \in 1..Len(lines) : lines[i] = <<>>})

countEmptyLines(ok, content) ==
    IF ~ok THEN 0
    ELSE LET lines == Split(content)
         IN  Cardinality({i \in 1..Len(lines) : TrimSpace(lines[i]) = <<>>})

countCommentLines(ok, content, ext) ==
    IF ext \notin DOMAIN CommentParsers THEN 0
    ELSE IF ~ok THEN 0
    ELSE LET lines == Split(content)
         IN  Cardinality({i \in 1..Len(lines) : IsComment(CommentParsers[ext], lines[i])})

(***************************************************************************)
(* State.                                                                  *)
(***************************************************************************)
VARIABLES
    targetDir,     \* runStats argument: the directory to scan
    extensions,    \* runStats argument: the included extensions
    ignoreList,    \* runStats argument: the ignored directory names
    showProgress,  \* runStats argument
    verbose,       \* runStats argument
    unreadable,    \* file system: the nodes whose read fails from now on
    contents,      \* file system: the text of each file of the scanned tree
    counter,       \* the Counter: mu and the six fields
    wg,            \* the sync.WaitGroup counter
    pcMain,        \* where runStats is
    dirTask,       \* per directory: the scanDirWithProgress call on it
    fileTask,      \* per file: the goroutine measuring it, with its locals
    incCalls,      \* per file: the number of Inc calls that returned
    stdout,        \* what was printed to standard output
    stderr,        \* what was printed to standard error
    rs,            \* locals of runStats after the barrier
    outputFile,    \* runStats argument, read first at the export step
    written        \* the exports written to outputFile, in order

vars == << targetDir, contents, extensions, ignoreList, showProgress, verbose, unreadable, counter, wg,
           pcMain, dirTask, fileTask, incCalls, stdout, stderr, rs, outputFile,
           written >>

args == << targetDir, extensions, ignoreList, showProgress, verbose >>

(***************************************************************************)
(* The directories that can be scanned.  Nodes are named by short ids;     *)
(* each has the name os.ReadDir reports, its kind, its entries in the      *)
(* order os.ReadDir returns them (sorted by file name, bytewise: upper     *)
(* case before lower case) and, for a file, its text at the start.         *)
(*                                                                         *)
(*   root/            README  a.go  b.txt  c.GO  lib/  vendor/             *)
(*                    (README has no extension, c.GO an upper-case one)    *)
(*   root/lib/        (empty)                                              *)
(*   root/vendor/     pkg.go/        (a directory whose name has a dot)    *)
(*   root/vendor/pkg.go/   d.go                                            *)
(*                                                                         *)
(*   proj/            a.go  b.txt                                          *)
(*                                                                         *)
(*   go/  s.go        js/  s.js        jsx/  s.jsx                         *)
(*   ts/  s.ts        tsx/ s.tsx       txt/  s.txt                         *)
(*                    (one directory with one file for each extension that *)
(*                    has a comment parser, and one for .txt, without)     *)
(***************************************************************************)
Vendor == <<"v","e","n","d","o","r">>

ContentA ==
    << "p","a","c","k","a","g","e"," ","p", NL,
       "/","/"," ","c","o","m","m","e","n","t", NL,
       NL,
       "f","u","n","c"," ","f","(",")","{","}", NL >>

ContentB == << "h","e","l","l","o", NL >>

ContentC == << "x", NL, " ", "\t" >>

ContentD == << " ","*"," ","c", NL, "/","/","c" >>

Dir(name, entries) ==
    [name |-> name, isDir |-> TRUE, entries |-> entries, content |-> <<>>]

File(name, content) ==
    [name |-> name, isDir |-> FALSE, entries |-> <<>>, content |-> content]

Tree ==
    ( "root"   :> Dir(<<".">>, <<"README", "a.go", "b.txt", "c.GO", "lib", "vendor">>) ) @@
    ( "a.go"   :> File(<<"a",".","g","o">>, ContentA) ) @@
    ( "b.txt"  :> File(<<"b",".","t","x","t">>, ContentB) ) @@
    ( "lib"    :> Dir(<<"l","i","b">>, <<>>) ) @@
    ( "README" :> File(<<"R","E","A","D","M","E">>, ContentB) ) @@
    ( "c.GO"   :> File(<<"c",".","G","O">>, ContentC) ) @@
    ( "vendor" :> Dir(Vendor, <<"pkg.go">>) ) @@
    ( "pkg.go" :> Dir(<<"p","k","g",".","g","o">>, <<"d.go">>) ) @@
    ( "d.go"   :> File(<<"d",".","g","o">>, ContentD) ) @@
    ( "proj"       :> Dir(<<"p","r","o","j">>, <<"proj/a.go", "proj/b.txt">>) ) @@
    ( "proj/a.go"  :> File(<<"a",".","g","o">>, ContentA) ) @@
    ( "proj/b.txt" :> File(<<"b",".","t","x","t">>, ContentB) ) @@
    ( "go"      :> Dir(<<"g","o">>, <<"s.go">>) ) @@
    ( "js"      :> Dir(<<"j","s">>, <<"s.js">>) ) @@
    ( "jsx"     :> Dir(<<"j","s","x">>, <<"s.jsx">>) ) @@
    ( "ts"      :> Dir(<<"t","s">>, <<"s.ts">>) ) @@
    ( "tsx"     :> Dir(<<"t","s","x">>, <<"s.tsx">>) ) @@
    ( "txt"     :> Dir(<<"t","x","t">>, <<"s.txt">>) ) @@
    ( "s.go"    :> File(<<"s",".","g","o">>, <<>>) ) @@
    ( "s.js"    :> File(<<"s",".","j","s">>, <<>>) ) @@
    ( "s.jsx"   :> File(<<"s",".","j","s","x">>, <<>>) ) @@
    ( "s.ts"    :> File(<<"s",".","t","s">>, <<>>) ) @@
    ( "s.tsx"   :> File(<<"s",".","t","s","x">>, <<>>) ) @@
    ( "s.txt"   :> File(<<"s",".","t","x","t">>, <<>>) )

\* The directory runStats is called on, and what lies in and beneath it.
Root == targetDir

RECURSIVE Descend(_)
Descend(n) ==
    {n} \cup UNION {Descend(Tree[n].entries[i]) : i \in 1..Len(Tree[n].entries)}

Nodes == Descend(Root)
Dirs  == {n \in Nodes : Tree[n].isDir}
Files == {n \in Nodes : ~Tree[n].isDir}

\* The directory whose listing holds node n (Root has none and maps to itself).
Parent(n) ==
    IF n = Root THEN Root
    ELSE CHOOSE d \in Dirs : \E i \in 1..Len(Tree[d].entries) : Tree[d].entries[i] = n

\* The directories on the path from Root to n, n excluded and Root included.
RECURSIVE Ancestors(_)
Ancestors(n) == IF n = Root THEN {} ELSE {Parent(n)} \cup Ancestors(Parent(n))

\* The scan configurations: the extensions and ignoreList arguments of runStats,
\* as main builds them from -e and -i.  In each at most two files match, so at
\* most two file goroutines run at once.
ScanChoices ==
    { [extensions |-> <<ExtGo, ExtTxt>>, ignoreList |-> <<Vendor>>],
      [extensions |-> <<ExtGo>>,         ignoreList |-> <<>>],
      [extensions |-> <<ExtGo>>,         ignoreList |-> <<Vendor>>],
      [extensions |-> <<ExtTxt>>,        ignoreList |-> <<>>] }

(***************************************************************************)
(* Go maps: a function whose domain is the set of keys present.            *)
(***************************************************************************)
EmptyMap == <<>>

\* m[k] as an expression: the zero value when k is absent.
MapGet(m, k) == IF k \in DOMAIN m THEN m[k] ELSE 0

\* m[k] = v
MapPut(m, k, v) == [x \in (DOMAIN m) \cup {k} |-> IF x = k THEN v ELSE m[x]]

\* The sum of the values of m (a range loop adding them up).
RECURSIVE MapSum(_)
MapSum(m) ==
    IF DOMAIN m = {} THEN 0
    ELSE LET k == CHOOSE x \in DOMAIN m : TRUE
         IN  m[k] + MapSum([x \in (DOMAIN m) \ {k} |-> m[x]])

(***************************************************************************)
(* The Counter and the locals at their initial values.                     *)
(***************************************************************************)
\* NewCounter(): empty maps, zero totals, the mutex unlocked.
NewCounter ==
    [ mu                |-> FALSE,
      total             |-> 0,
      totalFiles        |-> 0,
      emptyLines        |-> 0,
      commentLinesByExt |-> EmptyMap,
      linesByExt        |-> EmptyMap,
      byExt             |-> EmptyMap ]

NoLocals ==
    [ extCounts |-> [shared |-> FALSE, map |-> EmptyMap], totalFiles |-> 0, totalLines |-> 0, totalEmpty |-> 0,
      totalComment |-> 0, exportStats |-> EmptyMap,
      exportSummary |-> [ TotalFiles |-> 0, TotalLines |-> 0, TotalCommentLines |-> 0,
                          TotalEmptyLines |-> 0,
                          AvgLinesPerFile |-> [num |-> 0, den |-> 0] ] ]

IdleFile ==
    [ pc |-> "idle", ext |-> <<>>, lines |-> 0, emptyLines |-> 0, commentLines |-> 0,
      reads |-> <<>>, stmt |-> 0, tmp |-> 0 ]

\* runStats has made wg and the Counter and is about to call
\* scanDirWithProgress on the target directory.
AtStart ==
    /\ unreadable = {}
    /\ counter = NewCounter
    /\ wg = 0
    /\ pcMain = "scan"
    /\ dirTask = [d \in Dirs |-> [pc |-> IF d = Root THEN "ReadDir" ELSE "idle", i |-> 1]]
    /\ fileTask = [f \in Files |-> IdleFile]
    /\ incCalls = [f \in Files |-> 0]
    /\ stdout = {}
    /\ stderr = {}
    /\ rs = NoLocals
    /\ outputFile = <<>>
    /\ written = <<>>

\* main's Run closure has called runStats on the directory root.
Init ==
    /\ targetDir = "root"
    /\ \E choice \in ScanChoices : /\ extensions = choice.extensions
                                  /\ ignoreList = choice.ignoreList
    /\ showProgress \in BOOLEAN
    /\ verbose \in BOOLEAN
    /\ contents = [f \in Files |-> Tree[f].content]
    /\ AtStart

(***************************************************************************)
(* The file system.  A read of node n (os.ReadDir, os.ReadFile) fails when *)
(* n is unreadable; a readable node may become unreadable (removed, its    *)
(* permissions changed) at any time before a read, and then stays so.      *)
(***************************************************************************)
ReadOutcomes(n) ==
    {ok \in BOOLEAN : IF ok THEN n \notin unreadable
                      ELSE n \in unreadable \/ Cardinality(unreadable) < MaxUnreadable}

AfterRead(n, ok) == IF ok THEN unreadable ELSE unreadable \cup {n}

(***************************************************************************)
(* scanDirWithProgress(dir, ...)                                           *)
(***************************************************************************)
\* Mutation: the ignore list is never consulted.
shouldIgnoreNothing(name, list) == FALSE

shouldIgnoreDir(name, list) == \E i \in 1..Len(list) : list[i] = name

\* The deferred wg.Done() of a spawned goroutine; the call on the target
\* directory runs in runStats itself, which goes on to wg.Wait().
ReturnFromScan(d) ==
    IF d = Root THEN /\ pcMain' = "Wait"
                     /\ wg' = wg
    ELSE /\ wg' = wg - 1
         /\ UNCHANGED pcMain

\* Mutation: an unreadable directory ends the run (log.Fatal instead of return).
ReadDirFatal(d) ==
    /\ dirTask[d].pc = "ReadDir"
    /\ \E ok \in ReadOutcomes(d) :
        /\ unreadable' = AfterRead(d, ok)
        /\ IF ok
           THEN /\ dirTask' = [dirTask EXCEPT ![d].pc = "loop"]
                /\ UNCHANGED << stdout, wg, pcMain >>
           ELSE /\ stdout' = stdout \cup {<<"Error reading directory:", d>>}
                /\ dirTask' = [dirTask EXCEPT ![d].pc = "done"]
                /\ pcMain' = "done"
                /\ wg' = wg
    /\ UNCHANGED << args, contents, counter, fileTask, incCalls, stderr, rs, outputFile, written >>

\* entries, err := os.ReadDir(dir); on an error print it and return.
ReadDir(d) ==
    /\ dirTask[d].pc = "ReadDir"
    /\ \E ok \in ReadOutcomes(d) :
        /\ unreadable' = AfterRead(d, ok)
        /\ IF ok
           THEN /\ dirTask' = [dirTask EXCEPT ![d].pc = "loop"]
                /\ UNCHANGED << stdout, wg, pcMain >>
           ELSE /\ stdout' = stdout \cup {<<"Error reading directory:", d>>}
                /\ dirTask' = [dirTask EXCEPT ![d].pc = "done"]
                /\ ReturnFromScan(d)
    /\ UNCHANGED << args, contents, counter, fileTask, incCalls, stderr, rs, outputFile, written >>

\* One iteration of the loop over entries.
ScanEntry(d) ==
    /\ dirTask[d].pc = "loop"
    /\ dirTask[d].i <= Len(Tree[d].entries)
    /\ LET entry == Tree[d].entries[dirTask[d].i]
           ext   == Ext(Tree[entry].name)
           next  == [dirTask EXCEPT ![d].i = @ + 1]
       IN  IF Tree[entry].isDir
           THEN IF shouldIgnoreDir(Tree[entry].name, ignoreList)
                THEN /\ dirTask' = next
                     /\ UNCHANGED << wg, fileTask >>
                ELSE /\ wg' = wg + 1
                     /\ dirTask' = [next EXCEPT ![entry] = [pc |-> "ReadDir", i |-> 1]]
                     /\ UNCHANGED fileTask
           ELSE IF Contains(extensions, ext)
                THEN /\ wg' = wg + 1
                     /\ fileTask' = [fileTask EXCEPT ![entry] =
                                        [IdleFile EXCEPT !.pc = "measure", !.ext = ext]]
                     /\ dirTask' = next
                ELSE /\ dirTask' = next
                     /\ UNCHANGED << wg, fileTask >>
    /\ UNCHANGED << args, contents, unreadable, counter, pcMain, incCalls, stdout, stderr, rs,
                    outputFile, written >>

\* The loop is over: the call returns.
ScanReturn(d) ==
    /\ dirTask[d].pc = "loop"
    /\ dirTask[d].i > Len(Tree[d].entries)
    /\ dirTask' = [dirTask EXCEPT ![d].pc = "done"]
    /\ ReturnFromScan(d)
    /\ UNCHANGED << args, contents, unreadable, counter, fileTask, incCalls, stdout, stderr, rs,
                    outputFile, written >>

(***************************************************************************)
(* The goroutine of a matched file: the three measurements, Inc, Done.     *)
(***************************************************************************)
\* What a failed os.ReadFile prints.
ReadError(f, ok) == IF ok THEN {} ELSE {<<"Error reading file:", f>>}

\* lines 615-617: countLines, countEmptyLines and countCommentLines each read the
\* file anew (countCommentLines only when the extension has a parser), so each
\* read has its own outcome; a file that became unreadable stays unreadable.
Measure(f) ==
    /\ fileTask[f].pc = "measure"
    /\ LET ext     == fileTask[f].ext
           content == contents[f]
           parsed  == ext \in DOMAIN CommentParsers
       IN  \E ok1 \in ReadOutcomes(f) :
           \E ok2 \in {ok \in BOOLEAN : IF ok1 THEN ok \in ReadOutcomes(f) ELSE ~ok} :
           \E ok3 \in {ok \in BOOLEAN : IF ~parsed THEN ok = ok2
                                        ELSE IF ok2 THEN ok \in ReadOutcomes(f)
                                        ELSE ~ok} :
              /\ unreadable' = AfterRead(f, ok1 /\ ok2 /\ ok3)
              /\ stdout' = stdout \cup ReadError(f, ok1 /\ ok2 /\ ok3)
              /\ fileTask' = [fileTask EXCEPT
                    ![f].lines = countLines(ok1, content),
                    ![f].emptyLines = countEmptyLines(ok2, content),
                    ![f].commentLines = countCommentLines(ok3, content, ext),
                    ![f].reads = IF parsed THEN <<ok1, ok2, ok3>> ELSE <<ok1, ok2>>,
                    ![f].pc = "Lock"]
    /\ UNCHANGED << args, contents, counter, wg, pcMain, dirTask, incCalls, stderr, rs,
                    outputFile, written >>

(***************************************************************************)
(* Counter.Inc(ext, lines, emptyLines, commentLines): Lock, six            *)
(* read-modify-write statements, Unlock.  Each statement is a load and a   *)
(* store, as the compiled code performs it.                                *)
(***************************************************************************)
NumIncStmts == Len(<<"total", "totalFiles", "byExt", "linesByExt", "emptyLines",
                     "commentLinesByExt">>)

\* Mutation: linesByExt[ext] = lines instead of +=, so the old value is not read.
IncReadAssign(c, s, ext) ==
    CASE s = 1 -> c.total
      [] s = 2 -> c.totalFiles
      [] s = 3 -> MapGet(c.byExt, ext)
      [] s = 4 -> 0
      [] s = 5 -> c.emptyLines
      [] s = 6 -> MapGet(c.commentLinesByExt, ext)

\* The value statement s reads.
IncRead(c, s, ext) ==
    CASE s = 1 -> c.total
      [] s = 2 -> c.totalFiles
      [] s = 3 -> MapGet(c.byExt, ext)
      [] s = 4 -> MapGet(c.linesByExt, ext)
      [] s = 5 -> c.emptyLines
      [] s = 6 -> MapGet(c.commentLinesByExt, ext)

\* Mutation: byExt[ext] is touched but not incremented.
IncDeltaNoByExt(s, t) ==
    CASE s = 1 -> 1
      [] s = 2 -> 1
      [] s = 3 -> 0
      [] s = 4 -> t.lines
      [] s = 5 -> t.emptyLines
      [] s = 6 -> t.commentLines

\* Mutation: Inc forgets to count the file in totalFiles.
IncDeltaNoTotalFiles(s, t) ==
    CASE s = 1 -> 1
      [] s = 2 -> 0
      [] s = 3 -> 1
      [] s = 4 -> t.lines
      [] s = 5 -> t.emptyLines
      [] s = 6 -> t.commentLines

\* The amount statement s of the call made by task t adds.
IncDelta(s, t) ==
    CASE s = 1 -> 1
      [] s = 2 -> 1
      [] s = 3 -> 1
      [] s = 4 -> t.lines
      [] s = 5 -> t.emptyLines
      [] s = 6 -> t.commentLines

\* The Counter after statement s stored v.
IncWrite(c, s, ext, v) ==
    CASE s = 1 -> [c EXCEPT !.total = v]
      [] s = 2 -> [c EXCEPT !.totalFiles = v]
      [] s = 3 -> [c EXCEPT !.byExt = MapPut(@, ext, v)]
      [] s = 4 -> [c EXCEPT !.linesByExt = MapPut(@, ext, v)]
      [] s = 5 -> [c EXCEPT !.emptyLines = v]
      [] s = 6 -> [c EXCEPT !.commentLinesByExt = MapPut(@, ext, v)]

\* Mutation: a Lock that does not wait for the mutex (Inc without mutual exclusion).
CanLockRacy(c) == TRUE

\* c.mu.Lock() can return only when the mutex is unlocked.
CanLock(c) == ~c.mu

\* Mutation: Inc starts its statements without c.mu.Lock().
LockSkipped(f) ==
    /\ fileTask[f].pc = "Lock"
    /\ fileTask' = [fileTask EXCEPT ![f].pc = "load", ![f].stmt = 1]
    /\ UNCHANGED << args, contents, unreadable, counter, wg, pcMain, dirTask, incCalls,
                    stdout, stderr, rs, outputFile, written >>

Lock(f) ==
    /\ fileTask[f].pc = "Lock"
    /\ CanLock(counter)
    /\ counter' = [counter EXCEPT !.mu = TRUE]
    /\ fileTask' = [fileTask EXCEPT ![f].pc = "load", ![f].stmt = 1]
    /\ UNCHANGED << args, contents, unreadable, wg, pcMain, dirTask, incCalls, stdout, stderr, rs,
                    outputFile, written >>

IncLoad(f) ==
    /\ fileTask[f].pc = "load"
    /\ fileTask' = [fileTask EXCEPT
                       ![f].tmp = IncRead(counter, fileTask[f].stmt, fileTask[f].ext),
                       ![f].pc = "store"]
    /\ UNCHANGED << args, contents, unreadable, counter, wg, pcMain, dirTask, incCalls, stdout,
                    stderr, rs, outputFile, written >>

IncStore(f) ==
    /\ fileTask[f].pc = "store"
    /\ LET t == fileTask[f]
       IN  /\ counter' = IncWrite(counter, t.stmt, t.ext, t.tmp + IncDelta(t.stmt, t))
           /\ fileTask' = [fileTask EXCEPT
                              ![f].tmp = 0,
                              ![f].stmt = IF t.stmt < NumIncStmts THEN t.stmt + 1 ELSE 0,
                              ![f].pc = IF t.stmt < NumIncStmts THEN "load" ELSE "Unlock"]
    /\ UNCHANGED << args, contents, unreadable, wg, pcMain, dirTask, incCalls, stdout, stderr, rs,
                    outputFile, written >>

\* Mutation: Inc returns without unlocking the mutex.
UnlockLeak(f) ==
    /\ fileTask[f].pc = "Unlock"
    /\ incCalls' = [incCalls EXCEPT ![f] = @ + 1]
    /\ fileTask' = [fileTask EXCEPT ![f].pc = "finish"]
    /\ UNCHANGED << args, contents, unreadable, counter, wg, pcMain, dirTask, stdout, stderr, rs,
                    outputFile, written >>

\* c.mu.Unlock(); Inc returns.
Unlock(f) ==
    /\ fileTask[f].pc = "Unlock"
    /\ counter' = [counter EXCEPT !.mu = FALSE]
    /\ incCalls' = [incCalls EXCEPT ![f] = @ + 1]
    /\ fileTask' = [fileTask EXCEPT ![f].pc = "finish"]
    /\ UNCHANGED << args, contents, unreadable, wg, pcMain, dirTask, stdout, stderr, rs,
                    outputFile, written >>

\* The progress line, when asked for, and the deferred wg.Done().
FileTaskReturn(f) ==
    /\ fileTask[f].pc = "finish"
    /\ stdout' = IF showProgress /\ ~verbose
                 THEN stdout \cup {<<"Processing:", f>>}
                 ELSE stdout
    /\ wg' = wg - 1
    /\ fileTask' = [fileTask EXCEPT ![f].pc = "done"]
    /\ UNCHANGED << args, contents, unreadable, counter, pcMain, dirTask, incCalls, stderr, rs,
                    outputFile, written >>

(***************************************************************************)
(* The Counter's accessors.  Each takes the mutex for the duration of the  *)
(* call, except the two averages, which read a field without it.           *)
(***************************************************************************)
\* float64(a) / float64(b): kept as the pair, b = 0 giving NaN or an infinity.
Quot(a, b) == [num |-> a, den |-> b]

\* A map variable of a caller refers either to the Counter's own byExt map
\* (shared) or to a map of its own; MapOf is the map it refers to now.
MapOf(m, c) == IF m.shared THEN c.byExt ELSE m.map

\* Mutation: ExtCounts returns c.byExt itself, as LinesByExt returns linesByExt.
ExtCountsNoCopy(c) == [shared |-> TRUE, map |-> EmptyMap]

\* A new map holding the entries of byExt.
ExtCounts(c) == [shared |-> FALSE, map |-> [k \in DOMAIN c.byExt |-> c.byExt[k]]]

LinesByExt(c) == c.linesByExt

CommentLinesByExt(c) == c.commentLinesByExt

Value(c) == c.total

\* Mutation: the range loop runs over byExt, the file counts.
LinesOverByExt(c) == MapSum(c.byExt)

Lines(c) == MapSum(c.linesByExt)

EmptyLines(c) == c.emptyLines

\* Mutation: the average of no file is 0 (the guard that lines 161-163 have).
GetAverageLinesPerFileGuarded(c) ==
    IF c.totalFiles = 0 THEN Quot(0, 1) ELSE Quot(Lines(c), c.totalFiles)

GetAverageLinesPerFile(c) == Quot(Lines(c), c.totalFiles)

GetAverageLinesPerFileByExt(c, ext) ==
    Quot(MapGet(LinesByExt(c), ext), MapGet(c.byExt, ext))

(***************************************************************************)
(* runStats after the scan of the target directory returned.               *)
(***************************************************************************)
\* Mutation: runStats goes on without waiting for the WaitGroup.
WgWaitNoBarrier ==
    /\ pcMain = "Wait"
    /\ pcMain' = "ExtCounts"
    /\ UNCHANGED << args, contents, unreadable, counter, wg, dirTask, fileTask, incCalls, stdout,
                    stderr, rs, outputFile, written >>

\* wg.Wait() returns when the counter is zero.
WgWait ==
    /\ pcMain = "Wait"
    /\ wg = 0
    /\ pcMain' = "ExtCounts"
    /\ UNCHANGED << args, contents, unreadable, counter, wg, dirTask, fileTask, incCalls, stdout,
                    stderr, rs, outputFile, written >>

\* One accessor call of lines 146-151: it needs the mutex, stores its result in
\* the local and goes on to the next call.
Accessor(here, there, locals) ==
    /\ pcMain = here
    /\ CanLock(counter)
    /\ pcMain' = there
    /\ rs' = locals
    /\ UNCHANGED << args, contents, unreadable, counter, wg, dirTask, fileTask, incCalls, stdout,
                    stderr, outputFile, written >>

\* extCounts := counter.ExtCounts(): a copy of byExt.
CallExtCounts ==
    Accessor("ExtCounts", "LinesByExt", [rs EXCEPT !.extCounts = ExtCounts(counter)])

\* linesByExt := counter.LinesByExt(): the live map, read later through the Counter.
CallLinesByExt == Accessor("LinesByExt", "CommentLinesByExt", rs)

\* commentByExt := counter.CommentLinesByExt(): the live map as well.
CallCommentLinesByExt == Accessor("CommentLinesByExt", "Value", rs)

CallValue == Accessor("Value", "Lines", [rs EXCEPT !.totalFiles = Value(counter)])

CallLines == Accessor("Lines", "EmptyLines", [rs EXCEPT !.totalLines = Lines(counter)])

CallEmptyLines ==
    Accessor("EmptyLines", "prepare", [rs EXCEPT !.totalEmpty = EmptyLines(counter)])

\* One row of exportStats (lines 159-172); linesByExt and commentByExt are the
\* live maps of the Counter.
ExportRow(c, extCounts, ext) ==
    [ Extension       |-> ext,
      FileCount       |-> extCounts[ext],
      TotalLines      |-> MapGet(LinesByExt(c), ext),
      CommentLines    |-> MapGet(CommentLinesByExt(c), ext),
      EmptyLines      |-> 0,
      AvgLinesPerFile |-> IF extCounts[ext] > 0
                          THEN Quot(MapGet(LinesByExt(c), ext), extCounts[ext])
                          ELSE Quot(0, 1) ]

\* Lines 152-183: totalComment, exportStats (keyed by extension: the order of the
\* rows is the map's iteration order, which is unspecified) and exportSummary.
\* GetAverageLinesPerFile calls Lines, which takes the mutex.
PrepareExport ==
    /\ pcMain = "prepare"
    /\ CanLock(counter)
    /\ LET totalComment == MapSum(CommentLinesByExt(counter))
       IN  rs' = [rs EXCEPT
                 !.totalComment = totalComment,
                 !.exportStats = [ext \in DOMAIN MapOf(rs.extCounts, counter) |->
                                     ExportRow(counter, MapOf(rs.extCounts, counter), ext)],
                 !.exportSummary = [ TotalFiles        |-> rs.totalFiles,
                                     TotalLines        |-> rs.totalLines,
                                     TotalCommentLines |-> totalComment,
                                     TotalEmptyLines   |-> rs.totalEmpty,
                                     AvgLinesPerFile   |-> GetAverageLinesPerFile(counter) ]]
    /\ pcMain' = "json"
    /\ UNCHANGED << args, contents, unreadable, counter, wg, dirTask, fileTask, incCalls, stdout,
                    stderr, outputFile, written >>

(***************************************************************************)
(* The exports and the console report (lines 185-280).  exportJSON,        *)
(* exportCSV, exportHTML and outputFile are arguments of runStats that     *)
(* nothing reads before line 185; each is drawn where runStats first reads *)
(* it.  createOK is the outcome of os.Create, writeOK that of the writes.  *)
(***************************************************************************)
OutputChoices == { <<>>, <<"o","u","t">> }

\* A float that encoding/json refuses (NaN, +Inf, -Inf) or Sprintf shows as NaN.
NotFinite(q) == q.den = 0

\* json.Encoder.Encode fails on a float that is not finite, and writes nothing.
EncodeFails(data) ==
    \/ NotFinite(data.Summary.AvgLinesPerFile)
    \/ \E e \in DOMAIN data.Stats : NotFinite(data.Stats[e].AvgLinesPerFile)

\* encoding/json on ExportData, by the json tags of the three struct types: the
\* rows under "stats" (keyed here by their extension), the totals under "summary".
MarshalRow(r) ==
    [ extension          |-> r.Extension,
      file_count         |-> r.FileCount,
      total_lines        |-> r.TotalLines,
      comment_lines      |-> r.CommentLines,
      empty_lines        |-> r.EmptyLines,
      avg_lines_per_file |-> r.AvgLinesPerFile ]

Marshal(data) ==
    [ stats   |-> [e \in DOMAIN data.Stats |-> MarshalRow(data.Stats[e])],
      summary |-> [ total_files         |-> data.Summary.TotalFiles,
                    total_lines         |-> data.Summary.TotalLines,
                    total_comment_lines |-> data.Summary.TotalCommentLines,
                    total_empty_lines   |-> data.Summary.TotalEmptyLines,
                    avg_lines_per_file  |-> data.Summary.AvgLinesPerFile ] ]

\* enc.Encode(exportData) on the created file: the document is marshalled first
\* and written only if that succeeded, so the file holds nothing after an
\* encoding error, the whole document after a good write and a part of it after
\* a failed one.
Encode(data, writeOK) ==
    IF EncodeFails(data) THEN [bytes |-> "none", doc |-> <<>>]
    ELSE [bytes |-> IF writeOK THEN "all" ELSE "part", doc |-> Marshal(data)]

Msg(text) == << text, "" >>

ExportJSON ==
    /\ pcMain = "json"
    /\ \E exportJSON \in BOOLEAN, out \in OutputChoices, createOK \in BOOLEAN,
          writeOK \in BOOLEAN :
        LET exportData == [Stats |-> rs.exportStats, Summary |-> rs.exportSummary]
            encoded    == writeOK /\ ~EncodeFails(exportData)
        IN  /\ outputFile' = out
            /\ IF exportJSON /\ out # <<>>
               THEN IF ~createOK
                    THEN /\ stderr' = stderr \cup {Msg("Error creating JSON file")}
                         /\ pcMain' = "done"
                         /\ UNCHANGED << stdout, written >>
                    ELSE /\ written' = Append(written,
                                [format |-> "json", complete |-> encoded,
                                 data |-> exportData,
                                 file |-> Encode(exportData, writeOK)])
                         /\ stderr' = IF encoded THEN stderr
                                      ELSE stderr \cup {Msg("Error writing JSON")}
                         /\ stdout' = IF ~verbose
                                      THEN stdout \cup {Msg("Exported stats as JSON")}
                                      ELSE stdout
                         /\ pcMain' = "csv"
               ELSE /\ pcMain' = "csv"
                    /\ UNCHANGED << stdout, stderr, written >>
    /\ UNCHANGED << args, contents, unreadable, counter, wg, dirTask, fileTask, incCalls, rs >>

\* writeStatsCSV ignores the errors of its writes.
ExportCSV ==
    /\ pcMain = "csv"
    /\ \E exportCSV \in BOOLEAN, createOK \in BOOLEAN, writeOK \in BOOLEAN :
        LET exportData == [Stats |-> rs.exportStats, Summary |-> rs.exportSummary]
        IN  IF exportCSV /\ outputFile # <<>>
            THEN IF ~createOK
                 THEN /\ stderr' = stderr \cup {Msg("Error creating CSV file")}
                      /\ pcMain' = "done"
                      /\ UNCHANGED << stdout, written >>
                 ELSE /\ written' = Append(written,
                             [format |-> "csv", complete |-> writeOK,
                              data |-> exportData])
                      /\ stdout' = IF ~verbose
                                   THEN stdout \cup {Msg("Exported stats as CSV")}
                                   ELSE stdout
                      /\ pcMain' = "html"
                      /\ UNCHANGED stderr
            ELSE /\ pcMain' = "html"
                 /\ UNCHANGED << stdout, stderr, written >>
    /\ UNCHANGED << args, contents, unreadable, counter, wg, dirTask, fileTask, incCalls, rs,
                    outputFile >>

\* writeStatsHTML returns the error of os.Create or of the template's Execute;
\* runStats reports either as "Error creating HTML file" and goes on.
ExportHTML ==
    /\ pcMain = "html"
    /\ \E exportHTML \in BOOLEAN, createOK \in BOOLEAN, writeOK \in BOOLEAN :
        LET exportData == [Stats |-> rs.exportStats, Summary |-> rs.exportSummary]
        IN  IF exportHTML /\ outputFile # <<>>
            THEN IF ~createOK
                 THEN /\ stderr' = stderr \cup {Msg("Error creating HTML file")}
                      /\ UNCHANGED << stdout, written >>
                 ELSE /\ written' = Append(written,
                             [format |-> "html", complete |-> writeOK,
                              data |-> exportData])
                      /\ stderr' = IF writeOK THEN stderr
                                   ELSE stderr \cup {Msg("Error creating HTML file")}
                      /\ stdout' = IF writeOK /\ ~verbose
                                   THEN stdout \cup {Msg("Exported stats as HTML")}
                                   ELSE stdout
            ELSE UNCHANGED << stdout, stderr, written >>
    /\ pcMain' = "console"
    /\ UNCHANGED << args, contents, unreadable, counter, wg, dirTask, fileTask, incCalls, rs,
                    outputFile >>

\* fmt.Sprintf("%.2f", q): NaN and the infinities by name, else the quotient
\* rounded to hundredths (a tie to the even digit).
Sprintf2f(q) ==
    IF q.den = 0
    THEN IF q.num = 0 THEN "NaN" ELSE IF q.num > 0 THEN "+Inf" ELSE "-Inf"
    ELSE LET h    == (q.num * 100) \div q.den
             r    == (q.num * 100) % q.den
             hund == IF 2 * r > q.den \/ (2 * r = q.den /\ h % 2 = 1) THEN h + 1 ELSE h
         IN  ToString(hund \div 100) \o "." \o
             (IF hund % 100 < 10 THEN "0" ELSE "") \o ToString(hund % 100)

\* Lines 222-280: nothing when verbose, else the extension table and the summary
\* table; the summary row calls GetAverageLinesPerFile again and formats it.
Console ==
    /\ pcMain = "console"
    /\ IF verbose
       THEN UNCHANGED stdout
       ELSE /\ CanLock(counter)
            /\ stdout' = stdout \cup
                             { Msg("Extension table"), Msg("Summary table"),
                               <<"Avg Lines/File", Sprintf2f(GetAverageLinesPerFile(counter))>> }
    /\ pcMain' = "done"
    /\ UNCHANGED << args, contents, unreadable, counter, wg, dirTask, fileTask, incCalls, stderr,
                    rs, outputFile, written >>

Next ==
    \/ \E d \in Dirs : ReadDir(d) \/ ScanEntry(d) \/ ScanReturn(d)
    \/ \E f \in Files : \/ Measure(f)
                        \/ Lock(f)
                        \/ IncLoad(f)
                        \/ IncStore(f)
                        \/ Unlock(f)
                        \/ FileTaskReturn(f)
    \/ WgWait
    \/ CallExtCounts \/ CallLinesByExt \/ CallCommentLinesByExt
    \/ CallValue \/ CallLines \/ CallEmptyLines
    \/ PrepareExport
    \/ ExportJSON \/ ExportCSV \/ ExportHTML
    \/ Console

Spec == Init /\ [][Next]_vars

\* The goroutines are scheduled fairly and sync.Mutex hands the lock over, so a
\* step that stays possible is taken.
FairSpec == Spec /\ WF_vars(Next)

(***************************************************************************)
(* The measurements on arbitrary texts: runStats is called on one of the   *)
(* six one-file directories, with all six extensions included, and the     *)
(* file there holds any text of at most MaxLen characters over Alphabet    *)
(* (the two comment characters, a blank, the newline and a letter).        *)
(***************************************************************************)
Alphabet == {"/", "*", " ", NL, "x"}

Texts == UNION {[1..n -> Alphabet] : n \in 0..MaxLen}

SampleDirs == {"go", "js", "jsx", "ts", "tsx", "txt"}

MeasureInit ==
    /\ targetDir \in SampleDirs
    /\ extensions = <<ExtGo, ExtJs, ExtJsx, ExtTs, ExtTsx, ExtTxt>>
    /\ ignoreList = <<>>
    /\ showProgress = FALSE
    /\ verbose = FALSE
    /\ \E text \in Texts : contents = [f \in Files |-> text]
    /\ AtStart

MeasureSpec == MeasureInit /\ [][Next]_vars

(***************************************************************************)
(* The scenario of the two files: runStats is called on the directory proj *)
(* (a.go and b.txt) with -e go,txt and an empty ignore list.               *)
(***************************************************************************)
ScenarioInit ==
    /\ targetDir = "proj"
    /\ extensions = <<ExtGo, ExtTxt>>
    /\ ignoreList = <<>>
    /\ showProgress \in BOOLEAN
    /\ verbose \in BOOLEAN
    /\ contents = [f \in Files |-> Tree[f].content]
    /\ AtStart

ScenarioSpec == ScenarioInit /\ [][Next]_vars

(***************************************************************************)
(* The Counter under any caller: two goroutines are about to call Inc,     *)
(* each with an extension and a line count of its own, while another       *)
(* caller takes ExtCounts at any moment and then writes to the map it got. *)
(* The two goroutines are named by the files of proj; pcMain is the place  *)
(* of the caller of ExtCounts.                                             *)
(***************************************************************************)
ClientInit ==
    /\ targetDir = "proj"
    /\ extensions = <<ExtGo, ExtTxt>>
    /\ ignoreList = <<>>
    /\ showProgress = FALSE
    /\ verbose = FALSE
    /\ contents = [f \in Files |-> Tree[f].content]
    /\ unreadable = {}
    /\ counter = NewCounter
    /\ wg = Cardinality(Files)
    /\ pcMain = "ExtCounts"
    /\ dirTask = [d \in Dirs |-> [pc |-> "done", i |-> 1]]
    /\ fileTask \in [Files -> {[IdleFile EXCEPT !.pc = "Lock", !.ext = e, !.lines = n] :
                                 e \in {ExtGo, ExtTxt}, n \in 1..2}]
    /\ incCalls = [f \in Files |-> 0]
    /\ stdout = {}
    /\ stderr = {}
    /\ rs = NoLocals
    /\ outputFile = <<>>
    /\ written = <<>>

\* m[k] = v on the map that ExtCounts returned, by the caller that holds it.
WriteExtCounts ==
    /\ pcMain = "LinesByExt"
    /\ \E k \in {ExtGo, ExtJs}, v \in 0..1 :
          IF rs.extCounts.shared
          THEN /\ counter' = [counter EXCEPT !.byExt = MapPut(@, k, v)]
               /\ UNCHANGED rs
          ELSE /\ rs' = [rs EXCEPT !.extCounts.map = MapPut(@, k, v)]
               /\ UNCHANGED counter
    /\ UNCHANGED << args, contents, unreadable, wg, pcMain, dirTask, fileTask, incCalls,
                    stdout, stderr, outputFile, written >>

ClientNext ==
    \/ \E f \in Files : \/ Lock(f)
                        \/ IncLoad(f)
                        \/ IncStore(f)
                        \/ Unlock(f)
    \/ CallExtCounts
    \/ WriteExtCounts

ClientSpec == ClientInit /\ [][ClientNext]_vars

(***************************************************************************)
(* Vocabulary of the properties.                                           *)
(***************************************************************************)
\* The sum of val(x) over the x in the finite set S.
SumOver(S, val(_)) ==
    LET sum[T \in SUBSET S] ==
            IF T = {} THEN 0
            ELSE LET x == CHOOSE y \in T : TRUE
                 IN  val(x) + sum[T \ {x}]
    IN  sum[S]

\* runStats is past wg.Wait().
PastBarrier == pcMain \notin {"scan", "Wait"}

\* runStats has read the Counter (lines 146-183 are done).
PastSnapshot == pcMain \in {"json", "csv", "html", "console", "done"}

\* The goroutines spawned for a directory or a file that have not returned.
RunningDirs  == {d \in Dirs \ {Root} : dirTask[d].pc \in {"ReadDir", "loop"}}
RunningFiles == {f \in Files : fileTask[f].pc \notin {"idle", "done"}}

\* The file goroutines that were started.
SpawnedFiles == {f \in Files : fileTask[f].pc # "idle"}

TaskLines(f)   == fileTask[f].lines
TaskEmpty(f)   == fileTask[f].emptyLines
TaskComment(f) == fileTask[f].commentLines
CallsOf(f)     == incCalls[f]

\* The extensions the started file goroutines pass to Inc.
WithExt(S, e) == {f \in S : fileTask[f].ext = e}
ExtsOf(S)     == {fileTask[f].ext : f \in S}

(***************************************************************************)
(* C1.  wg.Wait() returns only after every spawned directory and file      *)
(* goroutine has returned: the WaitGroup counter equals the number of      *)
(* spawned goroutines that are still running (so it is not zero while one  *)
(* runs or may still spawn another), no goroutine runs past the barrier,   *)
(* and what runStats reads after the barrier holds the effect of every Inc *)
(* call of the scan.                                                       *)
(***************************************************************************)
C1_BarrierWaitsForAll ==
    /\ wg = Cardinality(RunningDirs) + Cardinality(RunningFiles)
    /\ PastBarrier => /\ RunningDirs = {}
                      /\ RunningFiles = {}
                      /\ dirTask[Root].pc = "done"
                      /\ \A f \in SpawnedFiles : incCalls[f] = 1
    /\ PastSnapshot => /\ rs.totalFiles = Cardinality(SpawnedFiles)
                       /\ rs.totalLines = SumOver(SpawnedFiles, TaskLines)
                       /\ rs.totalEmpty = SumOver(SpawnedFiles, TaskEmpty)
                       /\ rs.totalComment = SumOver(SpawnedFiles, TaskComment)
                       /\ \A e \in ExtsOf(SpawnedFiles) :
                             MapOf(rs.extCounts, counter)[e] = Cardinality(WithExt(SpawnedFiles, e))

\* Two file goroutines, one of them spawned two directories down, were waited for.
C1_Witness ==
    /\ pcMain = "done"
    /\ fileTask["a.go"].pc = "done"
    /\ fileTask["d.go"].pc = "done"
    /\ rs.totalFiles = 2

(***************************************************************************)
(* C2.  Inc is atomic: whenever the mutex is free, the six fields hold     *)
(* exactly the Inc calls that have returned - total and totalFiles their   *)
(* number, byExt[e] the number of those with extension e, linesByExt[e]    *)
(* and commentLinesByExt[e] the sums of their arguments, emptyLines the    *)
(* sum of theirs - so no update is lost and none is seen half done.        *)
(***************************************************************************)
Returned == {f \in Files : incCalls[f] > 0}

C2_IncAtomic ==
    ~counter.mu =>
        /\ counter.total = SumOver(Files, CallsOf)
        /\ counter.totalFiles = SumOver(Files, CallsOf)
        /\ counter.emptyLines = SumOver(Returned, TaskEmpty)
        /\ DOMAIN counter.byExt = ExtsOf(Returned)
        /\ DOMAIN counter.linesByExt = ExtsOf(Returned)
        /\ DOMAIN counter.commentLinesByExt = ExtsOf(Returned)
        /\ \A e \in ExtsOf(Returned) :
              /\ counter.byExt[e] = SumOver(WithExt(Returned, e), CallsOf)
              /\ counter.linesByExt[e] = SumOver(WithExt(Returned, e), TaskLines)
              /\ counter.commentLinesByExt[e] = SumOver(WithExt(Returned, e), TaskComment)

\* Two calls with the same extension have returned, the second after waiting
\* for the mutex or not.
C2_Witness ==
    /\ ~counter.mu
    /\ incCalls["a.go"] = 1
    /\ incCalls["d.go"] = 1
    /\ counter.byExt[ExtGo] = 2

(***************************************************************************)
(* C3.  Whenever the mutex is free, total = totalFiles = the sum of the    *)
(* per-extension file counts; and after the barrier the total that Value() *)
(* returned equals the sum of the copied per-extension counts and the      *)
(* denominator totalFiles of GetAverageLinesPerFile.                       *)
(***************************************************************************)
C3_TotalIsSumByExt ==
    /\ ~counter.mu => /\ counter.total = counter.totalFiles
                      /\ counter.total = MapSum(counter.byExt)
    /\ PastSnapshot => /\ rs.exportSummary.TotalFiles = MapSum(MapOf(rs.extCounts, counter))
                       /\ rs.exportSummary.TotalFiles = rs.exportSummary.AvgLinesPerFile.den
                       /\ rs.exportSummary.TotalFiles =
                              SumOver(DOMAIN rs.exportStats,
                                      LAMBDA e : rs.exportStats[e].FileCount)

C3_Witness ==
    /\ PastSnapshot
    /\ rs.exportSummary.TotalFiles = 2
    /\ DOMAIN rs.exportStats = {ExtGo, ExtTxt}

(***************************************************************************)
(* The tree as the properties speak of it, stated without the walker's     *)
(* own helpers.                                                            *)
(***************************************************************************)
IncludeSet == {extensions[i] : i \in 1..Len(extensions)}
IgnoreSet  == {ignoreList[i] : i \in 1..Len(ignoreList)}

\* e is the extension of name: a suffix of name that starts with the only dot
\* it holds.
HasExtension(name, e) ==
    /\ e # <<>>
    /\ Len(name) >= Len(e)
    /\ SubSeq(name, Len(name) - Len(e) + 1, Len(name)) = e
    /\ e[1] = "."
    /\ \A i \in 2..Len(e) : e[i] # "."

Included(f) == \E e \in IncludeSet : HasExtension(Tree[f].name, e)

\* The nodes under directory d, at any depth.
Beneath(d) == {n \in Nodes : d \in Ancestors(n)}

\* The subdirectories whose basename is in the ignore set.
IgnoredDirs == {d \in Dirs \ {Root} : Tree[d].name \in IgnoreSet}

\* n is reached from the root through subdirectories that are not ignored.
Walkable(n) == \A d \in IgnoredDirs : n # d /\ n \notin Beneath(d)

\* Every directory on the way to n was listed.
Listed(n) == \A d \in Ancestors(n) : d \notin unreadable

\* The files the walk has to measure.
Expected == {f \in Files : Included(f) /\ Walkable(f) /\ Listed(f)}

(***************************************************************************)
(* C4.  The walker visits every directory reached from the root through    *)
(* listed, not ignored subdirectories, and calls Inc exactly once for      *)
(* every file entry of a visited directory whose extension is in the       *)
(* include set, and for no other entry: never twice, no goroutine for a    *)
(* file that does not match, none for a directory as a file.               *)
(***************************************************************************)
C4_IncExactlyOncePerMatch ==
    /\ \A f \in Files : /\ incCalls[f] <= 1
                        /\ fileTask[f].pc # "idle" => f \in Expected
    /\ \A d \in Dirs : dirTask[d].pc # "idle" => Walkable(d) /\ Listed(d)
    /\ PastBarrier =>
          /\ \A d \in Dirs : dirTask[d].pc = "done" <=> (Walkable(d) /\ Listed(d))
          /\ \A f \in Files : incCalls[f] = IF f \in Expected THEN 1 ELSE 0

\* Both .go files were counted, at the root and two directories down, and the
\* file without extension and the one with the upper-case extension were not.
C4_Witness ==
    /\ pcMain = "done"
    /\ incCalls["a.go"] = 1
    /\ incCalls["d.go"] = 1
    /\ incCalls["c.GO"] = 0
    /\ incCalls["README"] = 0
    /\ dirTask["pkg.go"].pc = "done"

(***************************************************************************)
(* C5.  No goroutine is spawned for a subdirectory whose basename is in    *)
(* the ignore set, nothing beneath it is visited or counted, and the       *)
(* totals read after the barrier are those of the files outside the        *)
(* ignored subtrees.                                                       *)
(***************************************************************************)
Pruned == {n \in Nodes : Walkable(n)}

C5_IgnoredSubtreeCountsNothing ==
    /\ \A d \in IgnoredDirs :
          /\ dirTask[d].pc = "idle"
          /\ \A n \in Beneath(d) :
                IF n \in Dirs THEN dirTask[n].pc = "idle"
                ELSE fileTask[n].pc = "idle" /\ incCalls[n] = 0
    /\ PastSnapshot =>
          LET kept == {f \in Files \cap Pruned : Included(f) /\ Listed(f)}
          IN  /\ rs.exportSummary.TotalFiles = Cardinality(kept)
              /\ rs.exportSummary.TotalLines = SumOver(kept, TaskLines)
              /\ rs.exportSummary.TotalEmptyLines = SumOver(kept, TaskEmpty)
              /\ rs.exportSummary.TotalCommentLines = SumOver(kept, TaskComment)
              /\ DOMAIN rs.exportStats = ExtsOf(kept)
              /\ \A e \in ExtsOf(kept) :
                    /\ rs.exportStats[e].FileCount = Cardinality(WithExt(kept, e))
                    /\ rs.exportStats[e].TotalLines = SumOver(WithExt(kept, e), TaskLines)
                    /\ rs.exportStats[e].CommentLines =
                           SumOver(WithExt(kept, e), TaskComment)

\* vendor is ignored, d.go two directories beneath it has an included extension,
\* and the report holds a.go alone.
C5_Witness ==
    /\ pcMain = "done"
    /\ IgnoredDirs = {"vendor"}
    /\ Included("d.go")
    /\ rs.exportSummary.TotalFiles = 1
    /\ rs.exportSummary.TotalLines = 5

(***************************************************************************)
(* C7.  A directory whose listing fails spawns nothing and nothing at or   *)
(* beneath it is counted; its sibling directories are still scanned and    *)
(* its sibling files still counted; the barrier is passed and the report   *)
(* made, all zero when the root itself is unreadable.                      *)
(***************************************************************************)
FailedDirs == {d \in Dirs : dirTask[d].pc = "done" /\ d \in unreadable}

Siblings(d) == {n \in Nodes \ {d, Root} : d # Root /\ Parent(n) = Parent(d)}

C7_UnreadableDirSkipped ==
    /\ \A d \in FailedDirs : \A n \in Beneath(d) :
          IF n \in Dirs THEN dirTask[n].pc = "idle"
          ELSE fileTask[n].pc = "idle" /\ incCalls[n] = 0
    /\ PastBarrier => \A d \in FailedDirs : \A n \in Siblings(d) :
          /\ (n \in Dirs /\ Walkable(n)) => dirTask[n].pc = "done"
          /\ (n \in Files /\ Included(n)) => incCalls[n] = 1
    /\ (PastSnapshot /\ Root \in FailedDirs) =>
          /\ rs.exportStats = EmptyMap
          /\ rs.exportSummary.TotalFiles = 0
          /\ rs.exportSummary.TotalLines = 0
          /\ rs.exportSummary.TotalCommentLines = 0
          /\ rs.exportSummary.TotalEmptyLines = 0

\* vendor could not be listed; a.go next to it was counted, lib next to it was
\* scanned, and the run reached its end.
C7_Witness ==
    /\ pcMain = "done"
    /\ "vendor" \in FailedDirs
    /\ incCalls["a.go"] = 1
    /\ incCalls["d.go"] = 0
    /\ Included("d.go")
    /\ dirTask["lib"].pc = "done"

(***************************************************************************)
(* C8.  For an unchanged tree the Counter read after the barrier is a      *)
(* function of the tree, the include set and the ignore set alone,         *)
(* whatever the interleaving: every field has the value that measuring the *)
(* expected files one after the other, from a zero Counter, gives.         *)
(***************************************************************************)
\* No file changed between the reads of its goroutine.
Unchanged ==
    \A f \in Files : \A i, j \in DOMAIN fileTask[f].reads :
        fileTask[f].reads[i] = fileTask[f].reads[j]

StaticLines(f)   == countLines(f \notin unreadable, contents[f])
StaticEmpty(f)   == countEmptyLines(f \notin unreadable, contents[f])
StaticComment(f) == countCommentLines(f \notin unreadable, contents[f],
                                      Ext(Tree[f].name))
NameExt(S)       == {Ext(Tree[f].name) : f \in S}
OfExt(S, e)      == {f \in S : Ext(Tree[f].name) = e}

C8_ResultIndependentOfSchedule ==
    (PastSnapshot /\ Unchanged) =>
        /\ counter.total = Cardinality(Expected)
        /\ counter.totalFiles = Cardinality(Expected)
        /\ counter.emptyLines = SumOver(Expected, StaticEmpty)
        /\ counter.byExt =
               [e \in NameExt(Expected) |-> Cardinality(OfExt(Expected, e))]
        /\ counter.linesByExt =
               [e \in NameExt(Expected) |-> SumOver(OfExt(Expected, e), StaticLines)]
        /\ counter.commentLinesByExt =
               [e \in NameExt(Expected) |-> SumOver(OfExt(Expected, e), StaticComment)]
        /\ MapOf(rs.extCounts, counter) = counter.byExt
        /\ rs.totalFiles = counter.total
        /\ rs.totalLines = MapSum(counter.linesByExt)
        /\ rs.totalEmpty = counter.emptyLines
        /\ rs.totalComment = MapSum(counter.commentLinesByExt)

\* Two goroutines with the same extension went through Inc, in either order.
C8_Witness ==
    /\ pcMain = "done"
    /\ unreadable = {}
    /\ counter.byExt = (ExtGo :> 2)
    /\ counter.linesByExt = (ExtGo :> 7)
    /\ counter.commentLinesByExt = (ExtGo :> 3)
    /\ counter.emptyLines = 2

(***************************************************************************)
(* C9.  Under fair scheduling every scan runs to its end: a state is       *)
(* reached in which every goroutine has returned, the mutex is unlocked,   *)
(* the WaitGroup counter is back at zero, wg.Wait() has returned and       *)
(* runStats is through the report.                                         *)
(***************************************************************************)
Finished ==
    /\ pcMain = "done"
    /\ wg = 0
    /\ ~counter.mu
    /\ RunningDirs = {}
    /\ RunningFiles = {}

C9_ScanCompletes == <>Finished

\* The end of a run in which two goroutines went through the mutex and a
\* directory could not be listed.
C9_Witness ==
    /\ Finished
    /\ incCalls["a.go"] = 1
    /\ incCalls["b.txt"] = 1
    /\ "lib" \in FailedDirs

(***************************************************************************)
(* C6 as the spec states it: a matched file that cannot be read adds       *)
(* nothing to any counter, as if it were absent.  (The code calls Inc with *)
(* three zeros for it, which counts the file.)                             *)
(***************************************************************************)
\* The files whose every read failed.
UnreadFiles ==
    {f \in SpawnedFiles : \A i \in DOMAIN fileTask[f].reads : ~fileTask[f].reads[i]}

C6_UnreadableFileCountsNothing ==
    PastSnapshot =>
        LET readFiles == SpawnedFiles \ UnreadFiles
        IN  /\ rs.exportSummary.TotalFiles = Cardinality(readFiles)
            /\ rs.exportSummary.TotalLines = SumOver(readFiles, TaskLines)
            /\ rs.exportSummary.TotalEmptyLines = SumOver(readFiles, TaskEmpty)
            /\ rs.exportSummary.TotalCommentLines = SumOver(readFiles, TaskComment)
            /\ DOMAIN rs.exportStats = ExtsOf(readFiles)
            /\ \A e \in ExtsOf(readFiles) :
                  rs.exportStats[e].FileCount = Cardinality(WithExt(readFiles, e))

(***************************************************************************)
(* C10 as the spec states it: when the output file of an export cannot be  *)
(* created, the error goes to standard error and, verbose being off, the   *)
(* two console tables are still printed.  (After a failed os.Create the    *)
(* JSON and the CSV export return from runStats.)                          *)
(***************************************************************************)
CreateErrors ==
    { Msg("Error creating JSON file"), Msg("Error creating CSV file"),
      Msg("Error creating HTML file") }

C10_ConsoleAfterFailedExport ==
    (pcMain = "done" /\ ~verbose /\ stderr \cap CreateErrors # {}) =>
        {Msg("Extension table"), Msg("Summary table")} \subseteq stdout

(***************************************************************************)
(* C11 as the spec states it: with verbose on, a run prints no progress    *)
(* line and no console table; all that is printed is error messages and,   *)
(* after each export that succeeded, its confirmation line.  (The code     *)
(* prints the confirmation lines only when verbose is off.)                *)
(***************************************************************************)
ErrorTexts ==
    { "Error reading file:", "Error reading directory:", "Error creating JSON file",
      "Error writing JSON", "Error creating CSV file", "Error creating HTML file" }

Confirmation(format) ==
    CASE format = "json" -> Msg("Exported stats as JSON")
      [] format = "csv"  -> Msg("Exported stats as CSV")
      [] format = "html" -> Msg("Exported stats as HTML")

Confirmations == {Confirmation(format) : format \in {"json", "csv", "html"}}

C11_VerboseOnlyErrorsAndConfirmation ==
    verbose =>
        /\ \A m \in stdout :
              m[1] \notin {"Processing:", "Extension table", "Summary table"}
        /\ \A m \in stdout \cup stderr : m[1] \in ErrorTexts \/ m \in Confirmations
        /\ \A i \in 1..Len(written) :
              written[i].complete => Confirmation(written[i].format) \in stdout

(***************************************************************************)
(* C12 as the spec states it: the error of every failed read of a file or  *)
(* of a directory is written to standard error and never to standard       *)
(* output.  (countLines, countEmptyLines, countCommentLines and            *)
(* scanDirWithProgress print it with fmt.Println, to standard output.)     *)
(***************************************************************************)
ReadErrorTexts == {"Error reading file:", "Error reading directory:"}

\* The nodes a read of which has failed.
FailedReads ==
    {d \in Dirs : dirTask[d].pc = "done" /\ d \in unreadable}
    \cup {f \in SpawnedFiles : \E i \in DOMAIN fileTask[f].reads : ~fileTask[f].reads[i]}

C12_ReadErrorsOnStderr ==
    /\ \A m \in stdout : m[1] \notin ReadErrorTexts
    /\ \A n \in FailedReads : \E m \in stderr : m[1] \in ReadErrorTexts /\ m[2] = n

(***************************************************************************)
(* Vocabulary of the measurements: the segments of a text, told by the     *)
(* positions of its newlines.  A segment starts after position a, where a  *)
(* is 0 or the position of a newline, and runs up to the next newline or   *)
(* the end of the text.                                                    *)
(***************************************************************************)
Newlines(s) == {i \in 1..Len(s) : s[i] = NL}

Starts(s) == {0} \cup Newlines(s)

\* Position i lies in the segment that starts after a.
InSegment(s, a, i) == i > a /\ i <= Len(s) /\ \A j \in (a + 1)..i : s[j] # NL

\* The segment holds white space only (or nothing).
BlankSegment(s, a) == \A i \in 1..Len(s) : InSegment(s, a, i) => s[i] \in {" ", "\t", "\r"}

\* The first character of the segment that is not white space starts one of
\* the prefixes //, /*, * and */.
CommentSegment(s, a) ==
    \E i \in 1..Len(s) :
        /\ InSegment(s, a, i)
        /\ \A j \in (a + 1)..(i - 1) : s[j] \in {" ", "\t", "\r"}
        /\ \/ s[i] = "*"
           \/ s[i] = "/" /\ i < Len(s) /\ s[i + 1] \in {"/", "*"}

\* The file goroutine of f has made its three measurements.
Measured(f) == fileTask[f].pc \notin {"idle", "measure"}

\* Every read that the measurements of f made succeeded.
AllRead(f) == \A i \in DOMAIN fileTask[f].reads : fileTask[f].reads[i]

(***************************************************************************)
(* C13.  For a file that could be read, countLines is the number of        *)
(* newline characters of its text plus one, whether or not the text ends   *)
(* with a newline ("a\n" gives 2, the empty text gives 1).                 *)
(***************************************************************************)
C13_LinesAreNewlinesPlusOne ==
    \A f \in Files :
        (Measured(f) /\ fileTask[f].reads[1]) =>
            fileTask[f].lines = Cardinality(Newlines(contents[f])) + 1

\* A text of one letter and a trailing newline was measured as two lines.
C13_Witness ==
    \E f \in Files : /\ Measured(f)
                      /\ fileTask[f].reads[1]
                      /\ contents[f] = <<"x", NL>>
                      /\ fileTask[f].lines = 2

(***************************************************************************)
(* C14.  For a file that could be read, countEmptyLines is the number of   *)
(* segments of its text that are empty once leading and trailing white     *)
(* space is trimmed, the segment after a trailing newline included; an     *)
(* empty file is measured as 1 line, 1 empty line and 0 comment lines.     *)
(***************************************************************************)
C14_EmptyLinesAreBlankSegments ==
    \A f \in Files :
        /\ (Measured(f) /\ fileTask[f].reads[2]) =>
               fileTask[f].emptyLines =
                   Cardinality({a \in Starts(contents[f]) : BlankSegment(contents[f], a)})
        /\ (Measured(f) /\ AllRead(f) /\ contents[f] = <<>>) =>
               /\ fileTask[f].lines = 1
               /\ fileTask[f].emptyLines = 1
               /\ fileTask[f].commentLines = 0

\* An empty .go file was measured.
C14_Witness ==
    \E f \in Files : /\ Measured(f)
                      /\ AllRead(f)
                      /\ fileTask[f].ext = ExtGo
                      /\ contents[f] = <<>>
                      /\ fileTask[f].emptyLines = 1

(***************************************************************************)
(* C15.  For a file that could be read, countCommentLines is, when the     *)
(* extension is one of .go, .js, .ts, .jsx and .tsx, the number of         *)
(* segments whose trimmed form starts with //, /*, * or */, and 0 for any  *)
(* other extension, whatever the text.                                     *)
(***************************************************************************)
C15_CommentLinesByPrefix ==
    \A f \in Files :
        (Measured(f) /\ AllRead(f)) =>
            fileTask[f].commentLines =
                IF fileTask[f].ext \in {ExtGo, ExtJs, ExtTs, ExtJsx, ExtTsx}
                THEN Cardinality({a \in Starts(contents[f]) :
                                     CommentSegment(contents[f], a)})
                ELSE 0

\* Two comment lines were counted in a .tsx file.
C15_Witness ==
    \E f \in Files : /\ Measured(f)
                      /\ AllRead(f)
                      /\ fileTask[f].ext = ExtTsx
                      /\ fileTask[f].commentLines = 2

(***************************************************************************)
(* C16.  The visible lines of a text are its segments, less the empty      *)
(* segment that follows a trailing newline.  For a file with a registered  *)
(* extension all of whose visible lines are comment lines, the comment     *)
(* count is the line count when the text does not end with a newline, and  *)
(* one less when it does: the segment after the trailing newline is        *)
(* counted as a line and is not a comment line.                            *)
(***************************************************************************)
EndsWithNewline(s) == s # <<>> /\ s[Len(s)] = NL

\* The starts of the visible lines.
VisibleLines(s) == IF EndsWithNewline(s) THEN Starts(s) \ {Len(s)} ELSE Starts(s)

OnlyCommentLines(f) ==
    /\ Measured(f)
    /\ AllRead(f)
    /\ fileTask[f].ext \in DOMAIN CommentParsers
    /\ \A a \in VisibleLines(contents[f]) : CommentSegment(contents[f], a)

C16_CommentOnlyFile ==
    \A f \in Files :
        OnlyCommentLines(f) =>
            fileTask[f].commentLines =
                fileTask[f].lines - (IF EndsWithNewline(contents[f]) THEN 1 ELSE 0)

\* A comment-only text with a trailing newline was measured.
C16_Witness ==
    \E f \in Files : /\ OnlyCommentLines(f)
                      /\ EndsWithNewline(contents[f])
                      /\ fileTask[f].commentLines = 1
                      /\ fileTask[f].lines = 2

\* C16 as the spec states it: the comment count of such a file equals its line
\* count, also when the text ends with a newline.
C16_CommentCountEqualsLineCount ==
    \A f \in Files : OnlyCommentLines(f) => fileTask[f].commentLines = fileTask[f].lines

(***************************************************************************)
(* C17.  The scan of proj (a.go with a package line, a // line, a blank    *)
(* line and a func line, each ended by a newline; b.txt with "hello\n"),   *)
(* with .go and .txt included and nothing ignored, every read succeeding:  *)
(* past the barrier the total of files is 2 and the total of comment lines *)
(* is 1, a.go having been measured as 5 lines and b.txt as 2 lines and no  *)
(* comment line, however the two file goroutines interleave.               *)
(***************************************************************************)
C17_TwoFileScenario ==
    (PastSnapshot /\ unreadable = {}) =>
        /\ rs.totalFiles = 2
        /\ rs.totalComment = 1
        /\ rs.exportSummary.TotalFiles = 2
        /\ rs.exportSummary.TotalCommentLines = 1
        /\ fileTask["proj/a.go"].lines = 5
        /\ fileTask["proj/b.txt"].lines = 2
        /\ fileTask["proj/b.txt"].commentLines = 0
        /\ counter.byExt = (ExtGo :> 1) @@ (ExtTxt :> 1)
        /\ counter.linesByExt = (ExtGo :> 5) @@ (ExtTxt :> 2)

\* The run is over, every read succeeded and both files were counted.
C17_Witness ==
    /\ pcMain = "done"
    /\ targetDir = "proj"
    /\ unreadable = {}
    /\ incCalls = [f \in Files |-> 1]
    /\ rs.totalFiles = 2
    /\ rs.totalComment = 1

(***************************************************************************)
(* C18.  For proj/a.go ("package p\n// comment\n\nfunc f(){}\n"), read    *)
(* without error, the measured count of empty lines is 2 - the blank line  *)
(* between the comment and the function, and the empty segment after the   *)
(* trailing newline - and the measured count of comment lines is 1.        *)
(***************************************************************************)
C18_EmptyLinesOfScenarioFile ==
    (Measured("proj/a.go") /\ AllRead("proj/a.go")) =>
        /\ fileTask["proj/a.go"].emptyLines = 2
        /\ fileTask["proj/a.go"].commentLines = 1

\* a.go was measured, and its two empty segments have reached the Counter.
C18_Witness ==
    /\ Measured("proj/a.go")
    /\ AllRead("proj/a.go")
    /\ contents["proj/a.go"] = ContentA
    /\ incCalls["proj/a.go"] = 1
    /\ counter.emptyLines >= 2

\* C18 as the spec states it: the only empty line of a.go is the blank line.
C18_OneEmptyLine ==
    (Measured("proj/a.go") /\ AllRead("proj/a.go")) =>
        /\ fileTask["proj/a.go"].emptyLines = 1
        /\ fileTask["proj/a.go"].commentLines = 1

(***************************************************************************)
(* C19 as the spec states it: whatever the scan found, also when it found  *)
(* no file, the JSON document written to an output file that can be        *)
(* created and written parses back to the snapshot - the totals of the     *)
(* summary are those of the Counter and each row holds the values of its   *)
(* extension.  (With no file counted the average is 0/0, Encode refuses it *)
(* and the file stays empty.)                                              *)
(***************************************************************************)
\* json.Unmarshal of the file's bytes succeeds only on a whole document.
Parses(file) == file.bytes = "all"

Unmarshal(file) ==
    [ Stats   |-> [e \in DOMAIN file.doc.stats |->
                     [ Extension    |-> file.doc.stats[e].extension,
                       FileCount    |-> file.doc.stats[e].file_count,
                       TotalLines   |-> file.doc.stats[e].total_lines,
                       CommentLines |-> file.doc.stats[e].comment_lines ]],
      Summary |-> [ TotalFiles        |-> file.doc.summary.total_files,
                    TotalLines        |-> file.doc.summary.total_lines,
                    TotalCommentLines |-> file.doc.summary.total_comment_lines ] ]

C19_JSONRoundTrip ==
    \A i \in 1..Len(written) :
        (written[i].format = "json" /\ written[i].file.bytes # "part") =>
            /\ Parses(written[i].file)
            /\ LET parsed == Unmarshal(written[i].file)
               IN  /\ parsed.Summary.TotalFiles = Value(counter)
                   /\ parsed.Summary.TotalLines = Lines(counter)
                   /\ parsed.Summary.TotalCommentLines = MapSum(CommentLinesByExt(counter))
                   /\ DOMAIN parsed.Stats = DOMAIN MapOf(ExtCounts(counter), counter)
                   /\ \A e \in DOMAIN parsed.Stats :
                         /\ parsed.Stats[e].Extension = e
                         /\ parsed.Stats[e].FileCount = MapOf(ExtCounts(counter), counter)[e]
                         /\ parsed.Stats[e].TotalLines = MapGet(LinesByExt(counter), e)
                         /\ parsed.Stats[e].CommentLines =
                                MapGet(CommentLinesByExt(counter), e)

(***************************************************************************)
(* C20.  The overall average is total lines over total files with no       *)
(* guard: the summary of the export holds that quotient, which is not a    *)
(* number when the scan counted no file, and the summary table then shows  *)
(* it as NaN; the average of an extension of which no file was counted is  *)
(* not a number either.                                                    *)
(***************************************************************************)
SummaryTablePrinted == Msg("Summary table") \in stdout

C20_AverageHasNoZeroGuard ==
    /\ PastSnapshot =>
          /\ rs.exportSummary.AvgLinesPerFile = Quot(rs.totalLines, rs.totalFiles)
          /\ rs.totalFiles = 0 => NotFinite(rs.exportSummary.AvgLinesPerFile)
    /\ (SummaryTablePrinted /\ rs.totalFiles = 0) => <<"Avg Lines/File", "NaN">> \in stdout
    /\ (SummaryTablePrinted /\ rs.totalFiles > 0) =>
          <<"Avg Lines/File", Sprintf2f(Quot(rs.totalLines, rs.totalFiles))>> \in stdout
    /\ ~counter.mu =>
          \A e \in {ExtGo, ExtJs, ExtTs, ExtJsx, ExtTsx, ExtTxt} :
              MapGet(counter.byExt, e) = 0 =>
                  NotFinite(GetAverageLinesPerFileByExt(counter, e))

\* A scan that counted no file has put the undefined average into the summary
\* of the export and into the summary table.
C20_Witness ==
    /\ pcMain = "done"
    /\ rs.totalFiles = 0
    /\ NotFinite(rs.exportSummary.AvgLinesPerFile)
    /\ <<"Avg Lines/File", "NaN">> \in stdout

(***************************************************************************)
(* C21.  ExtCounts returns a map of its own: the call leaves the Counter   *)
(* as it was and the map it returns holds the file counts of that moment;  *)
(* no step of an Inc call made afterwards changes the returned map, and no *)
(* write to the returned map changes the Counter.                          *)
(***************************************************************************)
\* The step is the call of ExtCounts and its return.
ExtCountsStep == pcMain = "ExtCounts" /\ pcMain' = "LinesByExt"

\* The step belongs to an Inc call made while the caller holds the result.
IncStepAfterExtCounts == pcMain = "LinesByExt" /\ fileTask' # fileTask

\* The step is a write of the caller to the map it holds.
WriteStep == pcMain = "LinesByExt" /\ pcMain' = pcMain /\ fileTask' = fileTask

C21_ExtCountsReturnsCopy ==
    [][ /\ ExtCountsStep =>
              /\ counter' = counter
              /\ MapOf(rs'.extCounts, counter') = counter.byExt
        /\ IncStepAfterExtCounts =>
              MapOf(rs'.extCounts, counter') = MapOf(rs.extCounts, counter)
        /\ WriteStep => counter' = counter ]_vars

\* ExtCounts returned after the first Inc call; the second Inc call has since
\* added a key to byExt and the caller has written a key of its own.
C21_Witness ==
    /\ pcMain = "LinesByExt"
    /\ \A f \in Files : incCalls[f] = 1
    /\ DOMAIN counter.byExt = {ExtGo, ExtTxt}
    /\ ~rs.extCounts.shared
    /\ DOMAIN rs.extCounts.map = {ExtGo, ExtJs}

(***************************************************************************)
(* C22.  In the report made after the barrier the total of lines is the    *)
(* sum of the line totals of the rows: TotalLines of the summary equals    *)
(* the sum of TotalLines over the rows of exportStats.                     *)
(***************************************************************************)
RowTotalLines(e) == rs.exportStats[e].TotalLines

C22_TotalLinesIsSumOfRows ==
    PastSnapshot =>
        /\ rs.exportSummary.TotalLines = SumOver(DOMAIN rs.exportStats, RowTotalLines)
        /\ rs.totalLines = rs.exportSummary.TotalLines

\* A report of two rows: a.go with 5 lines and b.txt with 2.
C22_Witness ==
    /\ pcMain = "done"
    /\ DOMAIN rs.exportStats = {ExtGo, ExtTxt}
    /\ rs.exportStats[ExtGo].TotalLines = 5
    /\ rs.exportStats[ExtTxt].TotalLines = 2
    /\ rs.exportSummary.TotalLines = 7

(***************************************************************************)
(* C23.  No data race on the Counter.  A step that changes a field of the  *)
(* Counter other than the mutex is a statement of Inc made by the one      *)
(* goroutine that holds the mutex.  The steps of runStats that use the     *)
(* Counter without the mutex - lines 152-183 and 226-280, which range over *)
(* and index the live maps of LinesByExt and CommentLinesByExt and call    *)
(* GetAverageLinesPerFile - are taken past wg.Wait(), when no file         *)
(* goroutine has an Inc call before it or under way.                       *)
(***************************************************************************)
\* The fields of the Counter that the mutex guards.
DataOf(c) == [c EXCEPT !.mu = FALSE]

\* The goroutines that are between Lock and Unlock of Inc.
InInc == {f \in Files : fileTask[f].pc \in {"load", "store", "Unlock"}}

UnlockedAccessStep == pcMain \in {"prepare", "console"} /\ pcMain' # pcMain

C23_NoDataRace ==
    [][ /\ DataOf(counter') # DataOf(counter) =>
              /\ counter.mu
              /\ \E f \in Files : /\ InInc = {f}
                                  /\ fileTask[f].pc = "store"
                                  /\ fileTask'[f] # fileTask[f]
        /\ UnlockedAccessStep =>
              /\ PastBarrier
              /\ wg = 0
              /\ \A f \in Files : fileTask[f].pc \in {"idle", "done"} ]_vars

\* Two Inc calls have written the Counter and runStats has since read the live
\* maps for the export and for the tables.
C23_Witness ==
    /\ pcMain = "done"
    /\ incCalls["a.go"] = 1
    /\ incCalls["d.go"] = 1
    /\ counter.commentLinesByExt[ExtGo] = 3
    /\ rs.totalComment = 3
    /\ SummaryTablePrinted

(***************************************************************************)
(* C24.  Whenever the mutex is free, byExt, linesByExt and                 *)
(* commentLinesByExt have the same keys and every value of byExt is at     *)
(* least 1.  Hence every row of the report has a file count of at least 1, *)
(* its average is the guarded quotient (extCounts[ext] > 0 holds), and the *)
(* average of GetAverageLinesPerFileByExt for a key of LinesByExt has a    *)
(* denominator that is not zero.                                           *)
(***************************************************************************)
C24_SameKeysAndPositiveCounts ==
    /\ ~counter.mu =>
          /\ DOMAIN counter.byExt = DOMAIN counter.linesByExt
          /\ DOMAIN counter.byExt = DOMAIN counter.commentLinesByExt
          /\ \A e \in DOMAIN counter.byExt : counter.byExt[e] >= 1
          /\ \A e \in DOMAIN LinesByExt(counter) :
                ~NotFinite(GetAverageLinesPerFileByExt(counter, e))
    /\ PastSnapshot =>
          \A e \in DOMAIN rs.exportStats :
              /\ rs.exportStats[e].FileCount >= 1
              /\ rs.exportStats[e].AvgLinesPerFile =
                     Quot(rs.exportStats[e].TotalLines, rs.exportStats[e].FileCount)

\* A report with the row of .go, of which two files were counted.
C24_Witness ==
    /\ pcMain = "done"
    /\ DOMAIN counter.byExt = {ExtGo}
    /\ DOMAIN counter.commentLinesByExt = {ExtGo}
    /\ rs.exportStats[ExtGo].FileCount = 2
    /\ rs.exportStats[ExtGo].AvgLinesPerFile = Quot(7, 2)

(***************************************************************************)
(* C25.  A file whose three reads all went the same way is measured with   *)
(* emptyLines + commentLines <= lines, no segment of its text being both   *)
(* empty and a comment line; hence, when this is so for every counted      *)
(* file, the total of empty lines plus the total of comment lines that     *)
(* runStats reads after the barrier is at most the total of lines.         *)
(***************************************************************************)
\* The reads of the goroutine of f all succeeded or all failed.
SameReads(f) ==
    \A i, j \in DOMAIN fileTask[f].reads : fileTask[f].reads[i] = fileTask[f].reads[j]

C25_EmptyAndCommentWithinLines ==
    /\ \A f \in Files :
          (Measured(f) /\ SameReads(f)) =>
              /\ fileTask[f].emptyLines + fileTask[f].commentLines <= fileTask[f].lines
              /\ \A a \in Starts(contents[f]) :
                    ~(BlankSegment(contents[f], a) /\ CommentSegment(contents[f], a))
    /\ (PastSnapshot /\ \A f \in SpawnedFiles : SameReads(f)) =>
          rs.totalEmpty + rs.totalComment <= rs.totalLines

\* A file of one comment line and one empty line was counted: 1 + 1 <= 2.
C25_Witness ==
    /\ pcMain = "done"
    /\ \E f \in Files : /\ Measured(f)
                         /\ AllRead(f)
                         /\ fileTask[f].emptyLines = 1
                         /\ fileTask[f].commentLines = 1
                         /\ fileTask[f].lines = 2
    /\ rs.totalEmpty = 1
    /\ rs.totalComment = 1
    /\ rs.totalLines = 2

====
